---- MODULE Spec2Model ----
(***************************************************************************)
(* Model of iotsend (src/src/iotsend.c): a command line front-end that     *)
(* parses its options with getopt, optionally opens a file, rewrites ';'   *)
(* to newline in the -H header string and hands the header text and an     *)
(* input descriptor to IOTCLIENT_Stream.                                   *)
(*                                                                         *)
(* C strings are sequences of one-character strings.  A char pointer is a  *)
(* record [isNull, str].  The run is a single thread; pc is its position   *)
(* and every external call (IOTCLIENT_*, stat, open, close) is one step    *)
(* whose return value is chosen by the environment.                        *)
(***************************************************************************)
EXTENDS Integers, Sequences, FiniteSets, TLC

(* ---------------------------------------------------------------------- *)
(* Bounds                                                                  *)
(* ---------------------------------------------------------------------- *)

\* largest number of command line arguments after argv[0]
MaxArgs == 3

\* the message size limit; its value lives in the external iotclient.h, the
\* model only needs sizes below, at and above it
MAX_IOT_MSG_SIZE == 2

(* ---------------------------------------------------------------------- *)
(* Program constants                                                       *)
(* ---------------------------------------------------------------------- *)

STDIN_FILENO == 0

EOK == 0

EINVAL == 22

NULL_HANDLE == 0

CLIENT_HANDLE == 1

NL == "\n"

NullStr == [isNull |-> TRUE, str |-> <<>>]

StrPtr(s) == [isNull |-> FALSE, str |-> s]

\* the command line arguments the model draws argv[1..] from
ArgTokens ==
    { <<"-", "v">>,
      <<"-", "h">>,
      <<"-", "H">>,
      <<"-", "x">>,
      <<"-", "-">>,
      <<"-", "v", "h">>,
      <<"-", "H", "k", ";", "v">>,
      <<"a", ":", "1", ";", "b", ":", "2">>,
      <<"k", ":", "v", ";", ";">>,
      <<"f">> }

RECURSIVE SeqsUpTo(_, _)
SeqsUpTo(S, n) ==
    IF n = 0 THEN { <<>> }
    ELSE LET shorter == SeqsUpTo(S, n - 1)
         IN  shorter \cup { Append(s, x) : s \in shorter, x \in S }

\* file sizes reported by stat
FileSizes == { 0, MAX_IOT_MSG_SIZE, MAX_IOT_MSG_SIZE + 1 }

\* descriptors open() can return on success
FileFds == { 3, 4 }

\* values IOTCLIENT_Stream can return
StreamResults == { EOK, EINVAL }

VARIABLES
    args,        \* argv[1..argc-1]
    pc,          \* position of the run in main / SendMessage
    state,       \* the IOTSendState object
    result,      \* main's result
    fd,          \* SendMessage's fd
    headers,     \* SendMessage's headers pointer
    smResult,    \* SendMessage's result
    st,          \* what stat reported: [ok, size]
    stderrOut,   \* messages written to standard error, in order
    calls,       \* external calls made so far, in order
    streamArgs,  \* arguments and result of every IOTCLIENT_Stream call
    openFds,     \* descriptors opened by the program and not yet closed
    exitCode     \* process exit code, -1 while running

vars == << args, pc, state, result, fd, headers, smResult, st,
           stderrOut, calls, streamArgs, openFds, exitCode >>

(* ---------------------------------------------------------------------- *)
(* getopt( argC, argV, "hvH:" ) as glibc runs it (argument permutation)    *)
(* ---------------------------------------------------------------------- *)

\* what ProcessOptions has accumulated while looping over getopt
OptInit ==
    [ verbose   |-> FALSE,
      headers   |-> NullStr,
      operands  |-> <<>>,
      out       |-> <<>>,
      optH      |-> FALSE,
      optUnknown |-> FALSE,
      optNoArg  |-> FALSE ]

\* usage( argV[0] ): argV[0] is the command name, one message on stderr
usage(acc) == [acc EXCEPT !.out = Append(@, "usage")]

\* the body of the switch for one value returned by getopt
SwitchCase(c, optarg, acc) ==
    CASE c = "v" -> [acc EXCEPT !.verbose = TRUE]
      [] c = "H" -> [acc EXCEPT !.headers = StrPtr(optarg)]
      [] c = "h" -> usage([acc EXCEPT !.optH = TRUE])
      [] OTHER   -> acc

RECURSIVE GetoptLoop(_, _, _, _)
\* a: the argument list, i: index of the element being scanned,
\* j: index of the option character inside element i (0: element not begun)
GetoptLoop(a, i, j, acc) ==
    IF i > Len(a) THEN acc
    ELSE LET e == a[i] IN
      IF j = 0 THEN
        IF e = <<"-", "-">> THEN
            \* "--" ends the options, the rest are operands
            [acc EXCEPT !.operands = @ \o SubSeq(a, i + 1, Len(a))]
        ELSE IF Len(e) >= 2 /\ e[1] = "-" THEN
            GetoptLoop(a, i, 2, acc)
        ELSE
            \* a non-option is skipped and permuted behind the options
            GetoptLoop(a, i + 1, 0, [acc EXCEPT !.operands = Append(@, e)])
      ELSE
        LET c == e[j]
            last == (j = Len(e))
            ni == IF last THEN i + 1 ELSE i
            nj == IF last THEN 0 ELSE j + 1
        IN  CASE c \in {"v", "h"} ->
                   GetoptLoop(a, ni, nj, SwitchCase(c, <<>>, acc))
              [] c = "H" ->
                   IF ~last THEN
                       GetoptLoop(a, i + 1, 0,
                                  SwitchCase("H", SubSeq(e, j + 1, Len(e)), acc))
                   ELSE IF i < Len(a) THEN
                       GetoptLoop(a, i + 2, 0, SwitchCase("H", a[i + 1], acc))
                   ELSE
                       \* option requires an argument: getopt returns '?'
                       GetoptLoop(a, i + 1, 0,
                           SwitchCase("?", <<>>,
                               [acc EXCEPT !.out = Append(@, "getopt: option requires an argument"),
                                           !.optNoArg = TRUE]))
              [] OTHER ->
                   \* invalid option: getopt returns '?'
                   GetoptLoop(a, ni, nj,
                       SwitchCase("?", <<>>,
                           [acc EXCEPT !.out = Append(@, "getopt: invalid option"),
                                       !.optUnknown = TRUE]))

\* the whole of ProcessOptions on the argument list a
ParseArgs(a) ==
    LET acc == GetoptLoop(a, 1, 0, OptInit)
    IN  [ verbose  |-> acc.verbose,
          headers  |-> acc.headers,
          fileName |-> IF Len(acc.operands) > 0
                       THEN StrPtr(acc.operands[1]) ELSE NullStr,
          out      |-> acc.out,
          optH     |-> acc.optH,
          optUnknown |-> acc.optUnknown,
          optNoArg |-> acc.optNoArg ]

(* ---------------------------------------------------------------------- *)
(* SendMessage helpers                                                     *)
(* ---------------------------------------------------------------------- *)

DefaultHeadersBug ==
    <<"s","o","u","r","c","e",":","i","o","t","s","e","n","d", NL>>

DefaultHeaders ==
    <<"s","o","u","r","c","e",":","i","o","t","s","e","n","d", NL, NL>>

RECURSIVE ReplaceLoop(_, _)
\* for ( i=0; i<strlen(headers); i++ ) if ( headers[i] == ';' ) headers[i] = '\n'
\* (i is the 1-based index here)
ReplaceLoop(h, i) ==
    IF i > Len(h) THEN h
    ELSE ReplaceLoop(IF h[i] = ";" THEN [h EXCEPT ![i] = NL] ELSE h, i + 1)

ReplaceSemicolonsBug(h) ==
    IF Len(h) = 0 THEN h ELSE SubSeq(ReplaceLoop(h, 1), 1, Len(h) - 1) \o <<h[Len(h)]>>

ReplaceSemicolons(h) == ReplaceLoop(h, 1)

(* ---------------------------------------------------------------------- *)
(* Initial state                                                           *)
(* ---------------------------------------------------------------------- *)

Init ==
    /\ args \in SeqsUpTo(ArgTokens, MaxArgs)
    /\ pc = "ProcessOptions"
    /\ state = [ hIoTClient |-> NULL_HANDLE, verbose |-> FALSE,
                 fileName |-> NullStr, headers |-> NullStr ]
    /\ result = EINVAL
    /\ fd = STDIN_FILENO
    /\ headers = DefaultHeaders
    /\ smResult = EINVAL
    /\ st = [ok |-> FALSE, size |-> 0]
    /\ stderrOut = <<>>
    /\ calls = <<>>
    /\ streamArgs = <<>>
    /\ openFds = {}
    /\ exitCode = -1

(* ---------------------------------------------------------------------- *)
(* Conditions of main and SendMessage                                      *)
(* ---------------------------------------------------------------------- *)

\* main: if ( state.hIoTClient != NULL )
CreatedOkBug(h) == TRUE

CreatedOk(h) == h # NULL_HANDLE

\* SendMessage: if ( pState->fileName != NULL )
OpensFileBug(fileName) == TRUE

OpensFile(fileName) == ~fileName.isNull

\* SendMessage: stat(...) == 0 and st.st_size > MAX_IOT_MSG_SIZE
OversizeBug(s) == s.ok /\ s.size > MAX_IOT_MSG_SIZE + 1

Oversize(s) == s.ok /\ s.size > MAX_IOT_MSG_SIZE

\* SendMessage: if ( fd != -1 )
ShouldStreamBug(f) == TRUE

ShouldStream(f) == f # -1

\* SendMessage: if ( ( pState->fileName != NULL ) && ( fd != -1 ) )
ShouldCloseBug(fileName, f) == fileName.isNull /\ f # -1

ShouldClose(fileName, f) == ~fileName.isNull /\ f # -1

(* ---------------------------------------------------------------------- *)
(* Steps of the run                                                        *)
(* ---------------------------------------------------------------------- *)

\* main: ProcessOptions( argc, argv, &state )
ProcessOptions ==
    /\ pc = "ProcessOptions"
    /\ LET p == ParseArgs(args)
       IN  /\ state' = [state EXCEPT !.verbose = p.verbose,
                                     !.headers = p.headers,
                                     !.fileName = p.fileName]
           /\ stderrOut' = stderrOut \o p.out
    /\ pc' = "Create"
    /\ UNCHANGED << args, result, fd, headers, smResult, st, calls,
                    streamArgs, openFds, exitCode >>

\* main: state.hIoTClient = IOTCLIENT_Create(); if ( state.hIoTClient != NULL )
Create ==
    /\ pc = "Create"
    /\ \E h \in { NULL_HANDLE, CLIENT_HANDLE } :
          /\ state' = [state EXCEPT !.hIoTClient = h]
          /\ pc' = IF CreatedOk(h) THEN "SetVerbose" ELSE "Exit"
    /\ calls' = Append(calls, "IOTCLIENT_Create")
    /\ UNCHANGED << args, result, fd, headers, smResult, st, stderrOut,
                    streamArgs, openFds, exitCode >>

\* main: IOTCLIENT_SetVerbose( state.hIoTClient, state.verbose )
SetVerbose ==
    /\ pc = "SetVerbose"
    /\ calls' = Append(calls, "IOTCLIENT_SetVerbose")
    /\ pc' = "SM_Headers"
    /\ UNCHANGED << args, state, result, fd, headers, smResult, st,
                    stderrOut, streamArgs, openFds, exitCode >>

\* SendMessage: locals and the in-place rewrite of pState->headers
SM_Headers ==
    /\ pc = "SM_Headers"
    /\ fd' = STDIN_FILENO
    /\ smResult' = EINVAL
    /\ IF ~state.headers.isNull
       THEN /\ headers' = ReplaceSemicolons(state.headers.str)
            /\ state' = [state EXCEPT !.headers = StrPtr(headers')]
       ELSE /\ headers' = DefaultHeaders
            /\ state' = state
    /\ pc' = IF OpensFile(state.fileName) THEN "SM_Stat" ELSE "SM_Stream"
    /\ UNCHANGED << args, result, st, stderrOut, calls, streamArgs,
                    openFds, exitCode >>

\* SendMessage: stat( pState->fileName, &st ) and the size warning
SM_Stat ==
    /\ pc = "SM_Stat"
    /\ \E ok \in BOOLEAN, size \in FileSizes :
          /\ st' = [ok |-> ok, size |-> IF ok THEN size ELSE 0]
          /\ stderrOut' = IF Oversize(st')
                          THEN Append(stderrOut, "Warning: Max file size exceeded")
                          ELSE stderrOut
    /\ calls' = Append(calls, "stat")
    /\ pc' = "SM_Open"
    /\ UNCHANGED << args, state, result, fd, headers, smResult, streamArgs,
                    openFds, exitCode >>

\* SendMessage: fd = open( pState->fileName, O_RDONLY )
SM_Open ==
    /\ pc = "SM_Open"
    /\ \E r \in FileFds \cup { -1 } :
          /\ fd' = r
          /\ openFds' = IF r # -1 THEN openFds \cup { r } ELSE openFds
    /\ calls' = Append(calls, "open")
    /\ pc' = "SM_Stream"
    /\ UNCHANGED << args, state, result, headers, smResult, st, stderrOut,
                    streamArgs, exitCode >>

\* SendMessage: IOTCLIENT_Stream( pState->hIoTClient, headers, fd ) or
\* "File not found"
SM_Stream ==
    /\ pc = "SM_Stream"
    /\ IF ShouldStream(fd)
       THEN \E r \in StreamResults :
               /\ smResult' = r
               /\ streamArgs' = Append(streamArgs,
                      [ handle |-> state.hIoTClient, headers |-> headers,
                        fd |-> fd, result |-> r ])
               /\ calls' = Append(calls, "IOTCLIENT_Stream")
               /\ stderrOut' = stderrOut
       ELSE /\ stderrOut' = Append(stderrOut, "File not found")
            /\ UNCHANGED << smResult, streamArgs, calls >>
    /\ pc' = "SM_Close"
    /\ UNCHANGED << args, state, result, fd, headers, st, openFds, exitCode >>

\* SendMessage: close( fd ) when a file was opened; return result
SM_Close ==
    /\ pc = "SM_Close"
    /\ IF ShouldClose(state.fileName, fd)
       THEN /\ openFds' = openFds \ { fd }
            /\ calls' = Append(calls, "close")
       ELSE UNCHANGED << openFds, calls >>
    /\ pc' = "ClientClose"
    /\ UNCHANGED << args, state, result, fd, headers, smResult, st,
                    stderrOut, streamArgs, exitCode >>

\* main: IOTCLIENT_Close( state.hIoTClient ); result = EOK
\* (the value SendMessage returned is not used)
ClientClose ==
    /\ pc = "ClientClose"
    /\ calls' = Append(calls, "IOTCLIENT_Close")
    /\ result' = EOK
    /\ pc' = "Exit"
    /\ UNCHANGED << args, state, fd, headers, smResult, st, stderrOut,
                    streamArgs, openFds, exitCode >>

\* main: free the strings and return result
Exit ==
    /\ pc = "Exit"
    /\ state' = [state EXCEPT !.headers = NullStr, !.fileName = NullStr]
    /\ exitCode' = result
    /\ pc' = "done"
    /\ UNCHANGED << args, result, fd, headers, smResult, st, stderrOut,
                    calls, streamArgs, openFds >>

Next ==
    \/ ProcessOptions
    \/ Create
    \/ SetVerbose
    \/ SM_Headers
    \/ SM_Stat
    \/ SM_Open
    \/ SM_Stream
    \/ SM_Close
    \/ ClientClose
    \/ Exit

Spec == Init /\ [][Next]_vars

TypeOK ==
    /\ pc \in { "ProcessOptions", "Create", "SetVerbose", "SM_Headers",
                "SM_Stat", "SM_Open", "SM_Stream", "SM_Close",
                "ClientClose", "Exit", "done" }
    /\ fd \in FileFds \cup { -1, STDIN_FILENO }
    /\ exitCode \in { -1, EOK, EINVAL }

(* ---------------------------------------------------------------------- *)
(* Properties                                                              *)
(* ---------------------------------------------------------------------- *)

\* what the command line of this run supplies
Supplied == ParseArgs(args)

InStderr(m) == \E i \in 1..Len(stderrOut) : stderrOut[i] = m

RECURSIVE Count(_, _)
Count(s, x) ==
    IF s = <<>> THEN 0
    ELSE (IF Head(s) = x THEN 1 ELSE 0) + Count(Tail(s), x)

IsPrefix(s, t) == Len(s) <= Len(t) /\ SubSeq(t, 1, Len(s)) = s

IsClientCall(c) ==
    c \in { "IOTCLIENT_Create", "IOTCLIENT_SetVerbose",
            "IOTCLIENT_Stream", "IOTCLIENT_Close" }

IsFileCall(c) == c \in { "open", "IOTCLIENT_Stream", "close" }

ClientCalls == SelectSeq(calls, IsClientCall)

FileCalls == SelectSeq(calls, IsFileCall)

AfterStream == pc \in { "SM_Close", "ClientClose", "Exit", "done" }

AfterSendMessage == pc \in { "ClientClose", "Exit", "done" }

\* C1: whenever a stream call was made, the process exits with success
\* exactly when that stream call returned success.
C1_ExitCodeIsStreamResult ==
    (pc = "done" /\ Len(streamArgs) > 0)
        => ((exitCode = 0) <=> (streamArgs[1].result = EOK))

\* C2: the header text passed to the stream call has the length of the
\* string supplied with -H, a newline wherever that string has ';' and the
\* original character everywhere else.
C2_HeaderRewriteExact ==
    \A k \in 1..Len(streamArgs) :
        ~Supplied.headers.isNull =>
            LET s == Supplied.headers.str
                h == streamArgs[k].headers
            IN  /\ Len(h) = Len(s)
                /\ \A i \in 1..Len(s) :
                       h[i] = (IF s[i] = ";" THEN "\n" ELSE s[i])

C2_Witness ==
    /\ Len(streamArgs) = 1
    /\ ~Supplied.headers.isNull
    /\ Supplied.headers.str = <<"a", ":", "1", ";", "b", ":", "2">>
    /\ streamArgs[1].headers = <<"a", ":", "1", "\n", "b", ":", "2">>

\* C3: when the file named on the command line cannot be opened, the run
\* writes "File not found" to standard error and makes no stream call.
C3_NoStreamWhenOpenFails ==
    /\ fd = -1 => streamArgs = <<>>
    /\ (AfterStream /\ fd = -1) => InStderr("File not found")

C3_Witness ==
    /\ pc = "done"
    /\ ~Supplied.fileName.isNull
    /\ fd = -1
    /\ Count(calls, "open") = 1

\* C4: the usage message is printed in every run in which -h is given and
\* in every run in which getopt meets an unrecognized option.
C4_UsageOnHelpOrUnknown ==
    pc # "ProcessOptions" =>
        ((Supplied.optH \/ Supplied.optUnknown) => InStderr("usage"))

\* C5: in every stream call the header text ends with a blank line, that
\* is with two consecutive newlines.
C5_HeaderEndsWithBlankLine ==
    \A k \in 1..Len(streamArgs) :
        LET h == streamArgs[k].headers
        IN  /\ Len(h) >= 2
            /\ h[Len(h)] = "\n"
            /\ h[Len(h) - 1] = "\n"

\* C6: without a -H value the header text passed to the stream call is
\* exactly "source:iotsend\n\n", whatever the other options and whether or
\* not a file argument is given.
C6_DefaultHeaderExact ==
    \A k \in 1..Len(streamArgs) :
        Supplied.headers.isNull =>
            streamArgs[k].headers =
                << "s", "o", "u", "r", "c", "e", ":",
                   "i", "o", "t", "s", "e", "n", "d", "\n", "\n" >>

C6_Witness ==
    /\ Len(streamArgs) = 1
    /\ Supplied.headers.isNull
    /\ ~Supplied.fileName.isNull
    /\ Supplied.verbose

\* C7: a file that is opened is opened before the stream call and closed
\* exactly once after it, whatever the stream call returns, and no
\* descriptor opened by the program is still open when the run ends.
C7_DescriptorLifecycle ==
    /\ pc = "done" => openFds = {}
    /\ Count(calls, "close") <= 1
    /\ openFds \subseteq { fd }
    /\ (AfterSendMessage /\ fd \in FileFds) =>
           FileCalls = << "open", "IOTCLIENT_Stream", "close" >>
    /\ (pc = "SM_Close" /\ fd \in FileFds) =>
           (FileCalls = << "open", "IOTCLIENT_Stream" >> /\ openFds = { fd })

C7_Witness ==
    /\ pc = "done"
    /\ fd \in FileFds
    /\ Len(streamArgs) = 1
    /\ streamArgs[1].result # EOK
    /\ Count(calls, "close") = 1
    /\ openFds = {}

\* C8: without a positional file argument no file is opened and the stream
\* call gets the standard input descriptor, for every combination of
\* -v, -h and -H.
C8_StdinWhenNoFile ==
    Supplied.fileName.isNull =>
        /\ Count(calls, "open") = 0
        /\ openFds = {}
        /\ \A k \in 1..Len(streamArgs) : streamArgs[k].fd = 0
        /\ (AfterStream /\ state.hIoTClient # NULL_HANDLE) => Len(streamArgs) = 1

C8_Witness ==
    /\ Len(streamArgs) = 1
    /\ Supplied.fileName.isNull
    /\ Supplied.verbose
    /\ Supplied.optH
    /\ ~Supplied.headers.isNull
    /\ streamArgs[1].fd = 0

\* C9: when SendMessage finds the file larger than the maximum message size
\* and opens it, the warning is printed and the stream call is still made
\* with the descriptor of that file.
C9_OversizeStillSent ==
    /\ (pc \in { "SM_Open", "SM_Stream" } /\ st.ok /\ st.size > MAX_IOT_MSG_SIZE)
           => InStderr("Warning: Max file size exceeded")
    /\ (AfterStream /\ st.ok /\ st.size > MAX_IOT_MSG_SIZE /\ fd # -1)
           => /\ InStderr("Warning: Max file size exceeded")
              /\ Len(streamArgs) = 1
              /\ streamArgs[1].fd = fd
              /\ fd \in FileFds

C9_Witness ==
    /\ pc = "done"
    /\ st.ok
    /\ st.size > MAX_IOT_MSG_SIZE
    /\ InStderr("Warning: Max file size exceeded")
    /\ Len(streamArgs) = 1
    /\ streamArgs[1].fd = fd

\* C10: the client is used in the order create, set-verbose, stream, close;
\* at most one stream call, only on a created client; a failed creation
\* means no stream call and a failure exit code; a created client is closed
\* exactly once, after any stream call, also when the file is not found.
C10_ClientCallOrder ==
    /\ \/ IsPrefix(ClientCalls, << "IOTCLIENT_Create", "IOTCLIENT_SetVerbose",
                                   "IOTCLIENT_Stream", "IOTCLIENT_Close" >>)
       \/ IsPrefix(ClientCalls, << "IOTCLIENT_Create", "IOTCLIENT_SetVerbose",
                                   "IOTCLIENT_Close" >>)
    /\ Len(streamArgs) <= 1
    /\ \A k \in 1..Len(streamArgs) : streamArgs[k].handle # NULL_HANDLE
    /\ (pc = "done" /\ state.hIoTClient = NULL_HANDLE) =>
           /\ ClientCalls = << "IOTCLIENT_Create" >>
           /\ streamArgs = <<>>
           /\ exitCode # 0
    /\ (pc = "done" /\ state.hIoTClient # NULL_HANDLE) =>
           /\ Count(calls, "IOTCLIENT_Close") = 1
           /\ ClientCalls[Len(ClientCalls)] = "IOTCLIENT_Close"
    /\ (pc = "done" /\ fd = -1) =>
           ClientCalls = << "IOTCLIENT_Create", "IOTCLIENT_SetVerbose",
                            "IOTCLIENT_Close" >>

C10_Witness ==
    /\ pc = "done"
    /\ fd = -1
    /\ InStderr("File not found")
    /\ Count(calls, "IOTCLIENT_Close") = 1

====
